---- MODULE Spec2Model ----
(***************************************************************************)
(* Model of the options dashboard script (src/main.py).                    *)
(*                                                                         *)
(* Spec     the session: every script run selects a (stock, expiry) pair,  *)
(*          consults the two session dictionaries cache / fetch_times,     *)
(*          fetches from the provider when the entry is missing or older   *)
(*          than CACHE_DURATION_HOURS, and either proceeds to rendering or *)
(*          stops on a fetch error (lines 57-104).                         *)
(* SpecFmt  one pass of the rendering sections over a snapshot: the        *)
(*          summary totals (lines 118-121), the calls table (199-258) and  *)
(*          the puts table (266-310).                                      *)
(***************************************************************************)
EXTENDS Integers, Sequences, FiniteSets, TLC

VARIABLES cache, fetch_times, now, turn, out,
          calls, puts, pc, summary, rename_map, calls_out, puts_out

\* the session part and the rendering part of the state
session == <<cache, fetch_times, now, turn, out>>
render  == <<calls, puts, pc, summary, rename_map, calls_out, puts_out>>
vars    == <<session, render>>

(***************************************************************************)
(* Bounds and program constants                                            *)
(***************************************************************************)
CACHE_DURATION_HOURS == 2

\* the clock is counted in whole hours, 0 .. MaxTime
MaxTime == 3

\* the provider's data for a key comes in versions 1 .. MaxVersion
MaxVersion == 2

\* the stocks of TICKERS the model's user selects among
Stocks == {"AAPL", "SPY"}

\* t.options: the expiries the provider offers for a stock
expiries(stock) ==
    IF stock = "AAPL" THEN {"2024-06-21", "2024-07-19"} ELSE {"2024-06-21"}

\* f"{stock}_{expiry}": no ticker contains "_", so the key determines the pair
cache_key(stock, expiry) == <<stock, "_", expiry>>

Keys == {cache_key(s, e) : s \in Stocks, e \in {"2024-06-21", "2024-07-19"}}

\* t.option_chain(expiry) when it succeeds: the calls and puts of one version
option_chain(stock, expiry, v) ==
    [calls |-> <<"calls", stock, expiry, v>>, puts |-> <<"puts", stock, expiry, v>>]

(***************************************************************************)
(* The session state and the cache check                                   *)
(***************************************************************************)
\* mutant: the window is closed at the 2-hour boundary
cache_valid_inclusive(key) ==
    /\ key \in DOMAIN cache
    /\ key \in DOMAIN fetch_times
    /\ now - fetch_times[key] <= CACHE_DURATION_HOURS

\* mutant: the comparison is the wrong way round
cache_valid_flipped(key) ==
    /\ key \in DOMAIN cache
    /\ key \in DOMAIN fetch_times
    /\ now - fetch_times[key] > CACHE_DURATION_HOURS

cache_valid(key) ==
    /\ key \in DOMAIN cache
    /\ key \in DOMAIN fetch_times
    /\ now - fetch_times[key] < CACHE_DURATION_HOURS

\* d[key] = value on a Python dict
SetItem(d, key, value) ==
    [k \in DOMAIN d \cup {key} |-> IF k = key THEN value ELSE d[k]]

\* mutant: the timestamp is not stored
StoreFetchTimeDropped(ft, key, t) == ft

\* st.session_state.fetch_times[cache_key] = datetime.now()
StoreFetchTime(ft, key, t) == SetItem(ft, key, t)

\* st.session_state.cache[cache_key] = {"calls": chain.calls, "puts": chain.puts}
StoreSnapshot(c, key, chain) ==
    SetItem(c, key, [calls |-> chain.calls, puts |-> chain.puts])

\* time_since_fetch of line 86, when the cache check computes it
time_since_fetch(key) ==
    IF key \in DOMAIN cache /\ key \in DOMAIN fetch_times
    THEN <<now - fetch_times[key]>> ELSE <<>>

\* what one run did: the selection, time_since_fetch, the number of
\* option_chain calls, whether the call raised, how the run ended, and the
\* snapshot and timestamp that lines 102-104 handed to the rendering sections
RunRecord(stock, expiry, fetch_calls, fetch_error, status, shown, fetch_time) ==
    [stock |-> stock, expiry |-> expiry,
     time_since_fetch |-> time_since_fetch(cache_key(stock, expiry)),
     fetch_calls |-> fetch_calls, fetch_error |-> fetch_error,
     status |-> status, shown |-> shown, fetch_time |-> fetch_time]

\* lines 102-104 on the dictionaries c, ft: the reads raise KeyError when an
\* entry is missing; otherwise the run goes on to render what it read
ReadEntry(c, ft, stock, expiry, fetch_calls, fetch_error) ==
    LET key == cache_key(stock, expiry) IN
    IF key \in DOMAIN c /\ key \in DOMAIN ft
    THEN RunRecord(stock, expiry, fetch_calls, fetch_error, "rendering",
                   <<c[key]>>, <<ft[key]>>)
    ELSE RunRecord(stock, expiry, fetch_calls, fetch_error, "KeyError",
                   <<>>, <<>>)

\* st.error(...); st.stop(): nothing after line 100 runs
Stopped(stock, expiry, fetch_calls) ==
    RunRecord(stock, expiry, fetch_calls, TRUE, "error", <<>>, <<>>)

(***************************************************************************)
(* Tables.  A table is [columns, rows]: the set of its column names and    *)
(* the sequence of its rows, each row a function from the column names to  *)
(* cells.  A cell is <<n>> for the number n and <<>> for a missing value.  *)
(***************************************************************************)
\* rows per table, and the largest cell value
MaxRows == 3
MaxVal == 1

NaN == <<>>
notna(x) == x # NaN

base_cols == <<"strike", "lastPrice", "volume", "openInterest", "impliedVolatility">>
optional_cols == <<"delta", "theta", "gamma", "vega">>

Range(seq) == {seq[i] : i \in 1..Len(seq)}

\* [col for col in cols if col in present], the order of cols kept
RECURSIVE Filter(_, _)
Filter(cols, present) ==
    IF cols = <<>> THEN <<>>
    ELSE IF Head(cols) \in present
         THEN <<Head(cols)>> \o Filter(Tail(cols), present)
         ELSE Filter(Tail(cols), present)

\* str.capitalize() on the four Greek names
capitalize(greek) ==
    CASE greek = "delta" -> "Delta"
      [] greek = "theta" -> "Theta"
      [] greek = "gamma" -> "Gamma"
      [] greek = "vega"  -> "Vega"

\* the rename_map literal of lines 206-212
rename_map_literal ==
    [c \in Range(base_cols) |->
        CASE c = "strike" -> "Strike"
          [] c = "lastPrice" -> "Premium"
          [] c = "volume" -> "Volume"
          [] c = "openInterest" -> "OI"
          [] c = "impliedVolatility" -> "IV"]

\* lines 214-216: the Greeks found in calls_df are added to the map
rename_map_with_greeks(map, df_columns) ==
    [c \in DOMAIN map \cup (Range(optional_cols) \cap df_columns) |->
        IF c \in DOMAIN map THEN map[c] ELSE capitalize(c)]

\* DataFrame.rename(columns=map) on one column name: names outside the map stay
rename(map, col) == IF col \in DOMAIN map THEN map[col] ELSE col

\* mutant: a missing cell is counted as a contract
RECURSIVE column_sum_counting_missing(_, _)
column_sum_counting_missing(rows, col) ==
    IF rows = <<>> THEN 0
    ELSE (IF notna(Head(rows)[col]) THEN Head(rows)[col][1] ELSE 1)
         + column_sum_counting_missing(Tail(rows), col)

\* Series.sum(): missing cells are skipped; int() of the total
RECURSIVE column_sum(_, _)
column_sum(rows, col) ==
    IF rows = <<>> THEN 0
    ELSE (IF notna(Head(rows)[col]) THEN Head(rows)[col][1] ELSE 0)
         + column_sum(Tail(rows), col)

(***************************************************************************)
(* sort_values(by=col, ascending=...) with the default kind="quicksort":   *)
(* the rows with a value are ordered by it, rows with equal values in an   *)
(* order the sort does not fix; the rows with a missing value follow, in   *)
(* input order, whatever the direction (na_position="last").               *)
(***************************************************************************)
\* the positions of seq whose cell is / is not missing, in input order
RECURSIVE positions(_, _, _)
positions(values, i, missing) ==
    IF i > Len(values) THEN <<>>
    ELSE IF (values[i] = NaN) = missing
         THEN <<i>> \o positions(values, i + 1, missing)
         ELSE positions(values, i + 1, missing)

\* the orderings of the position set S
RECURSIVE Orderings(_)
Orderings(S) ==
    IF S = {} THEN {<<>>}
    ELSE UNION {{<<x>> \o p : p \in Orderings(S \ {x})} : x \in S}

\* mutant: the direction is ignored
nargsort_always_ascending(values, ascending) ==
    LET non_nan == Range(positions(values, 1, FALSE)) IN
    {p \o positions(values, 1, TRUE) : p \in
        {q \in Orderings(non_nan) :
            \A i \in 1..(Len(q) - 1) : values[q[i]][1] <= values[q[i + 1]][1]}}

\* the indexers the sort can return for the column cells `values`
nargsort(values, ascending) ==
    LET non_nan == Range(positions(values, 1, FALSE)) IN
    {p \o positions(values, 1, TRUE) : p \in
        {q \in Orderings(non_nan) :
            \A i \in 1..(Len(q) - 1) :
                IF ascending THEN values[q[i]][1] <= values[q[i + 1]][1]
                ELSE values[q[i]][1] >= values[q[i + 1]][1]}}

(***************************************************************************)
(* Formatting (lines 245-256 and 297-308).  A display cell is [fmt, v]:    *)
(* the format that produced the string and the number it was applied to;   *)
(* "raw" is a cell left as the number (or missing value) it was.           *)
(***************************************************************************)
text(fmt, v) == [fmt |-> fmt, v |-> v]

format_cell(display_col, x) ==
    CASE display_col = "Premium" ->
            IF notna(x) THEN text("${:.2f}", x) ELSE text("N/A", <<>>)
      [] display_col \in {"Volume", "OI"} ->
            IF notna(x) THEN text("{:,}", x) ELSE text("{:,}", <<0>>)
      [] display_col = "IV" ->
            IF notna(x) THEN text("{:.1f}%", <<x[1] * 100>>) ELSE text("N/A", <<>>)
      [] display_col \in {"Delta", "Theta", "Gamma", "Vega"} ->
            IF notna(x) THEN text("{:.4f}", x) ELSE text("N/A", <<>>)
      [] OTHER -> text("raw", x)

\* lines 202-218 / 266-270: project, then rename with the map as it stands
display_columns(table, map) ==
    LET cols == Filter(base_cols \o optional_cols, table.columns)
    IN  [i \in 1..Len(cols) |-> rename(map, cols[i])]

\* the projected source columns, in the same order as display_columns
source_columns(table) == Filter(base_cols \o optional_cols, table.columns)

\* the cells of the column shown as display_col, in input order
column_values(table, map, display_col) ==
    LET src == source_columns(table)
        dc  == display_columns(table, map)
        i   == CHOOSE i \in 1..Len(dc) : dc[i] = display_col
    IN  [r \in 1..Len(table.rows) |-> table.rows[r][src[i]]]

\* the table handed to st.dataframe: the display columns, the two sort
\* selections, the indexer the sort returned, and the formatted rows in
\* sorted order
displayed(table, map, sort_col, order, indexer) ==
    LET src == source_columns(table)
        dc  == display_columns(table, map)
    IN  [columns |-> dc,
         sort_col |-> sort_col,
         order |-> order,
         indexer |-> indexer,
         rows |-> [r \in 1..Len(indexer) |->
                     [i \in 1..Len(dc) |->
                         format_cell(dc[i], table.rows[indexer[r]][src[i]])]]]

no_table == [columns |-> {}, rows |-> <<>>]
not_rendered == [columns |-> <<>>, sort_col |-> "", order |-> "", indexer |-> <<>>, rows |-> <<>>]
no_summary == [calls_oi |-> 0, calls_vol |-> 0, puts_oi |-> 0, puts_vol |-> 0]

Init ==
    /\ cache = <<>>
    /\ fetch_times = <<>>
    /\ now = 0
    /\ turn = 0
    /\ out = [stock |-> "", expiry |-> "", time_since_fetch |-> <<>>,
              fetch_calls |-> 0, fetch_error |-> FALSE,
              status |-> "none", shown |-> <<>>, fetch_time |-> <<>>]
    /\ calls = no_table
    /\ puts = no_table
    /\ pc = "idle"
    /\ summary = no_summary
    /\ rename_map = rename_map_literal
    /\ calls_out = not_rendered
    /\ puts_out = not_rendered

\* a run whose cache check succeeds: lines 85-87, then 102-104
RunCached(stock, expiry) ==
    /\ cache_valid(cache_key(stock, expiry))
    /\ out' = ReadEntry(cache, fetch_times, stock, expiry, 0, FALSE)
    /\ turn' = 1 - turn
    /\ UNCHANGED <<cache, fetch_times, now, render>>

\* a run whose cache check fails and whose fetch succeeds after d hours:
\* lines 89-97, then 102-104
RunFetch(stock, expiry, v, d) ==
    LET key == cache_key(stock, expiry)
        c2  == StoreSnapshot(cache, key, option_chain(stock, expiry, v))
        ft2 == StoreFetchTime(fetch_times, key, now + d)
    IN  /\ ~cache_valid(key)
        /\ now + d <= MaxTime
        /\ now' = now + d
        /\ cache' = c2
        /\ fetch_times' = ft2
        /\ out' = ReadEntry(c2, ft2, stock, expiry, 1, FALSE)
        /\ turn' = 1 - turn
        /\ UNCHANGED render

\* mutant: a failed fetch falls through to the reads of lines 102-104
RunFetchErrorFallThrough(stock, expiry, d) ==
    /\ ~cache_valid(cache_key(stock, expiry))
    /\ now + d <= MaxTime
    /\ now' = now + d
    /\ out' = ReadEntry(cache, fetch_times, stock, expiry, 1, TRUE)
    /\ turn' = 1 - turn
    /\ UNCHANGED <<cache, fetch_times, render>>

\* a run whose cache check fails and whose fetch raises after d hours:
\* lines 89-92, 98-100
RunFetchError(stock, expiry, d) ==
    /\ ~cache_valid(cache_key(stock, expiry))
    /\ now + d <= MaxTime
    /\ now' = now + d
    /\ out' = Stopped(stock, expiry, 1)
    /\ turn' = 1 - turn
    /\ UNCHANGED <<cache, fetch_times, render>>

\* time passes between runs
Tick ==
    /\ now < MaxTime
    /\ now' = now + 1
    /\ UNCHANGED <<cache, fetch_times, turn, out, render>>

Next ==
    \/ \E stock \in Stocks : \E expiry \in expiries(stock) :
          RunCached(stock, expiry)
    \/ \E stock \in Stocks : \E expiry \in expiries(stock) :
          \E v \in 1..MaxVersion, d \in 0..1 : RunFetch(stock, expiry, v, d)
    \/ \E stock \in Stocks : \E expiry \in expiries(stock) :
          \E d \in 0..1 : RunFetchError(stock, expiry, d)
    \/ Tick

Spec == Init /\ [][Next]_vars

(***************************************************************************)
(* The rendering sections over one snapshot (SpecFmt)                      *)
(***************************************************************************)
Cells == {NaN} \cup {<<n>> : n \in 0..MaxVal}

\* a row is drawn by one cell: strike, openInterest, impliedVolatility, delta
\* and gamma carry it, the other columns carry the cell next to it
next_cell(x) == IF x = NaN THEN <<0>> ELSE IF x[1] = 0 THEN NaN ELSE <<x[1] - 1>>

row(x, columns) ==
    [c \in columns |->
        IF c \in {"strike", "openInterest", "impliedVolatility", "delta", "gamma"}
        THEN x ELSE next_cell(x)]

table(columns, xs) ==
    [columns |-> columns, rows |-> [i \in 1..Len(xs) |-> row(xs[i], columns)]]

RowDraws == UNION {[1..n -> Cells] : n \in 0..MaxRows}
SampleRows == <<<<0>>, <<1>>>>
OneRow == <<<<1>>>>
RowColumns == {"strike", "volume", "openInterest"}

\* the snapshots rendered: every pair of Greek subsets over two sample rows,
\* tables lacking one base column, and every row sequence on either side of
\* a snapshot whose tables have the columns RowColumns
Snapshots ==
    {[calls |-> table(Range(base_cols) \cup gc, SampleRows),
      puts  |-> table(Range(base_cols) \cup gp, SampleRows)] :
        gc \in SUBSET Range(optional_cols), gp \in SUBSET Range(optional_cols)}
    \cup
    {[calls |-> table(Range(base_cols) \ {c}, SampleRows),
      puts  |-> table(Range(base_cols), SampleRows)] : c \in Range(base_cols)}
    \cup
    {[calls |-> table(Range(base_cols), SampleRows),
      puts  |-> table(Range(base_cols) \ {c}, SampleRows)] : c \in Range(base_cols)}
    \cup
    {[calls |-> table(RowColumns, xs),
      puts  |-> table(RowColumns, OneRow)] : xs \in RowDraws}
    \cup
    {[calls |-> table(RowColumns, OneRow),
      puts  |-> table(RowColumns, xs)] : xs \in RowDraws}

\* the state in which lines 102-104 have read a freshly fetched snapshot
InitFmt ==
    \E snap \in Snapshots :
        /\ cache = SetItem(<<>>, cache_key("SPY", "2024-06-21"), snap)
        /\ fetch_times = SetItem(<<>>, cache_key("SPY", "2024-06-21"), 0)
        /\ now = 0
        /\ turn = 1
        /\ out = [stock |-> "SPY", expiry |-> "2024-06-21",
                  time_since_fetch |-> <<>>, fetch_calls |-> 1,
                  fetch_error |-> FALSE, status |-> "rendering",
                  shown |-> <<snap>>, fetch_time |-> <<0>>]
        /\ calls = snap.calls
        /\ puts = snap.puts
        /\ pc = "summary"
        /\ summary = no_summary
        /\ rename_map = rename_map_literal
        /\ calls_out = not_rendered
        /\ puts_out = not_rendered

\* lines 118-121: calls["openInterest"] ... raise KeyError on an absent column
Summary ==
    /\ pc = "summary"
    /\ IF {"openInterest", "volume"} \subseteq (calls.columns \cap puts.columns)
       THEN /\ summary' = [calls_oi  |-> column_sum(calls.rows, "openInterest"),
                           calls_vol |-> column_sum(calls.rows, "volume"),
                           puts_oi   |-> column_sum(puts.rows, "openInterest"),
                           puts_vol  |-> column_sum(puts.rows, "volume")]
            /\ pc' = "calls"
       ELSE /\ pc' = "KeyError"
            /\ UNCHANGED summary
    /\ UNCHANGED <<session, calls, puts, rename_map, calls_out, puts_out>>

\* lines 199-258 with the user's two selections
CallsTable(sort_col, order) ==
    LET map == rename_map_with_greeks(rename_map_literal,
                                      Range(source_columns(calls)))
    IN  /\ pc = "calls"
        /\ "Strike" \in Range(display_columns(calls, map))
        /\ sort_col \in Range(display_columns(calls, map))
        /\ \E indexer \in nargsort(column_values(calls, map, sort_col),
                                   order = "Low to High") :
              calls_out' = displayed(calls, map, sort_col, order, indexer)
        /\ rename_map' = map
        /\ pc' = "puts"
        /\ UNCHANGED <<session, calls, puts, summary, puts_out>>

\* line 226: list(calls_df.columns).index('Strike') raises ValueError
CallsTableNoStrike ==
    LET map == rename_map_with_greeks(rename_map_literal,
                                      Range(source_columns(calls)))
    IN  /\ pc = "calls"
        /\ "Strike" \notin Range(display_columns(calls, map))
        /\ rename_map' = map
        /\ pc' = "ValueError"
        /\ UNCHANGED <<session, calls, puts, summary, calls_out, puts_out>>

\* lines 266-310 with the user's two selections; rename_map is the one the
\* calls section left
PutsTable(sort_col, order) ==
    /\ pc = "puts"
    /\ "Strike" \in Range(display_columns(puts, rename_map))
    /\ sort_col \in Range(display_columns(puts, rename_map))
    /\ \E indexer \in nargsort(column_values(puts, rename_map, sort_col),
                               order = "Low to High") :
          puts_out' = displayed(puts, rename_map, sort_col, order, indexer)
    /\ pc' = "done"
    /\ UNCHANGED <<session, calls, puts, summary, rename_map, calls_out>>

\* line 278: list(puts_df.columns).index('Strike') raises ValueError
PutsTableNoStrike ==
    /\ pc = "puts"
    /\ "Strike" \notin Range(display_columns(puts, rename_map))
    /\ pc' = "ValueError"
    /\ UNCHANGED <<session, calls, puts, summary, rename_map, calls_out, puts_out>>

DisplayNames ==
    {"Strike", "Premium", "Volume", "OI", "IV", "Delta", "Theta", "Gamma", "Vega"}
    \cup Range(optional_cols)
Orders == {"Low to High", "High to Low"}

NextFmt ==
    \/ Summary
    \/ \E sort_col \in DisplayNames, order \in Orders : CallsTable(sort_col, order)
    \/ CallsTableNoStrike
    \/ \E sort_col \in DisplayNames, order \in Orders : PutsTable(sort_col, order)
    \/ PutsTableNoStrike

SpecFmt == InitFmt /\ [][NextFmt]_vars

(***************************************************************************)
(* Claims about the session (checked under Spec)                           *)
(***************************************************************************)
\* a step is a script run; RunOf(key): it selected key
IsRun == turn' # turn
RunOf(key) == IsRun /\ cache_key(out'.stock, out'.expiry) = key

\* the entry of key exists in both dictionaries and is younger than 2 hours
Fresh(key) ==
    /\ key \in DOMAIN cache
    /\ key \in DOMAIN fetch_times
    /\ now - fetch_times[key] < 2

\* the entry of key exists and is 2 hours old or older
Expired(key) ==
    /\ key \in DOMAIN cache
    /\ key \in DOMAIN fetch_times
    /\ now - fetch_times[key] >= 2

\* C1: a run that selects a key whose entry exists in cache and fetch_times
\* and is younger than 2 hours makes no option_chain call and hands the
\* stored snapshot (with its stored timestamp) to the rendering sections;
\* the dictionaries are not touched.
C1_CacheHit ==
    [][\A key \in Keys :
         (RunOf(key) /\ Fresh(key)) =>
            /\ out'.fetch_calls = 0
            /\ out'.status = "rendering"
            /\ out'.shown = <<cache[key]>>
            /\ out'.fetch_time = <<fetch_times[key]>>
            /\ cache' = cache
            /\ fetch_times' = fetch_times]_vars

\* a cache hit one hour after the fetch
C1_Witness ==
    /\ out.status = "rendering"
    /\ out.fetch_calls = 0
    /\ out.time_since_fetch = <<1>>

\* C2: a run that selects a key whose stored timestamp is 2 hours old or
\* older (the boundary included) calls option_chain once; when the call
\* succeeds the key's snapshot is the fetched one and its timestamp the time
\* of the fetch, the key set is the same and the other entries are untouched.
C2_Refetch ==
    [][\A key \in Keys :
         (RunOf(key) /\ Expired(key)) =>
            /\ out'.fetch_calls = 1
            /\ ~out'.fetch_error =>
                 /\ \E v \in 1..MaxVersion :
                       cache'[key] = option_chain(out'.stock, out'.expiry, v)
                 /\ out'.shown = <<cache'[key]>>
                 /\ fetch_times'[key] = now'
                 /\ out'.fetch_time = <<now'>>
                 /\ DOMAIN cache' = DOMAIN cache
                 /\ DOMAIN fetch_times' = DOMAIN fetch_times
                 /\ \A k \in DOMAIN cache \ {key} :
                       cache'[k] = cache[k] /\ fetch_times'[k] = fetch_times[k]]_vars

\* a successful refetch at exactly the 2-hour boundary
C2_Witness ==
    /\ out.status = "rendering"
    /\ out.fetch_calls = 1
    /\ out.time_since_fetch = <<2>>
    /\ out.fetch_time = <<now>>

\* C3: a run whose option_chain call raises ends with the error, hands no
\* snapshot (in particular no expired one) to the rendering sections, has
\* made exactly one call, and leaves cache and fetch_times as they were.
C3_FetchError ==
    [][(IsRun /\ out'.fetch_error) =>
          /\ out'.status = "error"
          /\ out'.shown = <<>>
          /\ out'.fetch_time = <<>>
          /\ out'.fetch_calls = 1
          /\ cache' = cache
          /\ fetch_times' = fetch_times]_vars

\* a failed fetch for a key whose expired entry is still stored
C3_Witness ==
    /\ out.fetch_error
    /\ out.status = "error"
    /\ out.time_since_fetch # <<>>
    /\ cache_key(out.stock, out.expiry) \in DOMAIN cache

\* C10: cache and fetch_times always have the same key set, and the reads of
\* lines 102-104 never miss an entry: a run that reaches them hands on the
\* snapshot and timestamp stored for the selected key.
C10_SameKeys ==
    /\ DOMAIN cache = DOMAIN fetch_times
    /\ out.status # "KeyError"
    /\ out.status = "rendering" =>
          /\ cache_key(out.stock, out.expiry) \in DOMAIN cache
          /\ out.shown = <<cache[cache_key(out.stock, out.expiry)]>>
          /\ out.fetch_time = <<fetch_times[cache_key(out.stock, out.expiry)]>>

\* a failed fetch for a new key after two other keys were stored
C10_Witness ==
    /\ Cardinality(DOMAIN cache) = 2
    /\ out.fetch_error
    /\ cache_key(out.stock, out.expiry) \notin DOMAIN cache

(***************************************************************************)
(* Claims about the rendering sections (checked under SpecFmt)             *)
(***************************************************************************)
\* the fixed mapping of the specification, Greeks included
FixedName(col) ==
    CASE col = "strike" -> "Strike"
      [] col = "lastPrice" -> "Premium"
      [] col = "volume" -> "Volume"
      [] col = "openInterest" -> "OI"
      [] col = "impliedVolatility" -> "IV"
      [] col = "delta" -> "Delta"
      [] col = "theta" -> "Theta"
      [] col = "gamma" -> "Gamma"
      [] col = "vega" -> "Vega"

FixedOrder ==
    <<"strike", "lastPrice", "volume", "openInterest", "impliedVolatility",
      "delta", "theta", "gamma", "vega">>

\* the columns of FixedOrder that t has, renamed by the fixed mapping
FixedColumns(t) ==
    LET present == Filter(FixedOrder, t.columns)
    IN  [i \in 1..Len(present) |-> FixedName(present[i])]

CallsRendered == pc \in {"puts", "done", "ValueError"} /\ calls_out # not_rendered
PutsRendered == pc = "done"

\* the cells of the sort column of a rendered table, in input order
SortCells(t, shown) ==
    LET i == CHOOSE i \in 1..Len(shown.columns) : shown.columns[i] = shown.sort_col
    IN  [r \in 1..Len(t.rows) |-> t.rows[r][Filter(FixedOrder, t.columns)[i]]]

\* C4: the puts table shown depends on the puts snapshot alone: its columns
\* are the projected puts columns renamed by the fixed mapping, and every
\* cell is formatted by the rule of its renamed column, whatever columns the
\* calls table has.
C4_PutsByFixedMapping ==
    PutsRendered =>
        /\ puts_out.columns = FixedColumns(puts)
        /\ \A r \in 1..Len(puts_out.rows) : \A i \in 1..Len(puts_out.columns) :
              puts_out.rows[r][i] =
                 format_cell(FixedColumns(puts)[i],
                             puts.rows[puts_out.indexer[r]]
                                      [Filter(FixedOrder, puts.columns)[i]])

\* C5: the sort is stable: two rows with equal cells in the sort column keep
\* their input order in the sorted table.
Stable(t, shown) ==
    \A i, j \in 1..Len(shown.indexer) :
        (i < j /\ SortCells(t, shown)[shown.indexer[i]]
                    = SortCells(t, shown)[shown.indexer[j]])
            => shown.indexer[i] < shown.indexer[j]

C5_StableSort ==
    /\ CallsRendered => Stable(calls, calls_out)
    /\ PutsRendered => Stable(puts, puts_out)

\* no two rows share a cell of the sort column, a missing cell counted as a
\* value of its own
NoDuplicates(cells) ==
    \A i, j \in 1..Len(cells) : i # j => cells[i] # cells[j]

Reverse(seq) == [i \in 1..Len(seq) |-> seq[Len(seq) + 1 - i]]

Opposite(order) == IF order = "Low to High" THEN "High to Low" ELSE "Low to High"

\* C6 as stated: without duplicates in the sort column, the row sequence of
\* one order is exactly the reverse of the row sequence of the other order.
ExactReverse(t, shown) ==
    NoDuplicates(SortCells(t, shown)) =>
        \A other \in nargsort(SortCells(t, shown),
                              Opposite(shown.order) = "Low to High") :
            shown.indexer = Reverse(other)

C6_ExactReverse ==
    /\ CallsRendered => ExactReverse(calls, calls_out)
    /\ PutsRendered => ExactReverse(puts, puts_out)

\* C6 as amended: without duplicates in the sort column, the rows that have
\* a sort value come in exactly reversed order under the two orders, and a
\* row whose sort value is missing comes last under both.
ReverseButMissingLast(t, shown) ==
    LET cells   == SortCells(t, shown)
        present == Cardinality({r \in 1..Len(cells) : cells[r] # NaN})
    IN  NoDuplicates(cells) =>
            \A other \in nargsort(cells, Opposite(shown.order) = "Low to High") :
                /\ Len(other) = Len(shown.indexer)
                /\ \A i \in 1..present :
                      /\ cells[shown.indexer[i]] # NaN
                      /\ shown.indexer[i] = other[present + 1 - i]
                /\ \A i \in (present + 1)..Len(cells) :
                      /\ cells[shown.indexer[i]] = NaN
                      /\ shown.indexer[i] = other[i]

C6_ReverseButMissingLast ==
    /\ CallsRendered => ReverseButMissingLast(calls, calls_out)
    /\ PutsRendered => ReverseButMissingLast(puts, puts_out)

\* three calls rows, two sort values and a missing one, shown high to low
C6_Witness ==
    /\ CallsRendered
    /\ calls_out.order = "High to Low"
    /\ Len(calls.rows) = 3
    /\ NoDuplicates(SortCells(calls, calls_out))
    /\ \E r \in 1..3 : SortCells(calls, calls_out)[r] = NaN
    /\ calls_out.indexer # <<1, 2, 3>>

\* C7: the columns of each table shown are exactly the base columns and the
\* Greeks the table has, renamed, in the fixed order.
C7_OutputColumns ==
    /\ CallsRendered => calls_out.columns = FixedColumns(calls)
    /\ PutsRendered => puts_out.columns = FixedColumns(puts)

\* C8: no absent column makes the run fail: the summary and both tables are
\* produced for every snapshot.
C8_NoFailure == pc \notin {"KeyError", "ValueError"}

\* the total of a column with every missing cell counted as 0
Total(rows, col) ==
    LET f[n \in 0..Len(rows)] ==
            IF n = 0 THEN 0
            ELSE f[n - 1] + (IF rows[n][col] = NaN THEN 0 ELSE rows[n][col][1])
    IN  f[Len(rows)]

\* C9: each of the four summary totals is the sum of its column over the
\* rows of its own table, a missing cell counted as 0.
C9_SummaryTotals ==
    pc \in {"calls", "puts", "done", "ValueError"} =>
        /\ summary.calls_oi = Total(calls.rows, "openInterest")
        /\ summary.calls_vol = Total(calls.rows, "volume")
        /\ summary.puts_oi = Total(puts.rows, "openInterest")
        /\ summary.puts_vol = Total(puts.rows, "volume")

\* a calls open interest column with two values and a missing cell, and a
\* puts table with other totals
C9_Witness ==
    /\ pc = "calls"
    /\ Len(calls.rows) = 3
    /\ \E r \in 1..3 : calls.rows[r]["openInterest"] = NaN
    /\ summary.calls_oi = 2
    /\ summary.calls_oi # summary.puts_oi

====
